---- MODULE Spec2Model ----
(***************************************************************************)
(* Atomthreads event flags (kernel/atomevent.c) on top of the kernel's     *)
(* scheduler, ready queue and timer list.                                  *)
(*                                                                         *)
(* A 32-bit flag word is represented by the set of its set bit positions,  *)
(* truncated to NumBits positions: | is \cup, & is \cap and ~m is          *)
(* Bits \ m.  Pointers are small integers, NULL is 0.                      *)
(*                                                                         *)
(* One step of the model is one region executed with interrupts disabled   *)
(* (CRITICAL_START .. CRITICAL_END, a context switch inside atomSched      *)
(* included), or one unprotected call (atomEventCreate), or one interrupt  *)
(* handler from atomIntEnter to atomIntExit: a handler makes one event     *)
(* call, or it is the system tick.                                         *)
(***************************************************************************)
EXTENDS Integers, Sequences, FiniteSets, TLC

\* ------------------------------------------------------------------ bounds
NumBits == 2
NumThreads == 2
NumPrio == 2
MaxTimeout == 2
\* repetitions of atomEventCreate and atomEventDelete looked at
MaxRepeat == 3

\* --------------------------------------------------------------- constants
NULL == 0

Bits == 0 .. (NumBits - 1)
Masks == SUBSET Bits
ALLBITS == Bits
Not(m) == Bits \ m

AppThreads == 1 .. NumThreads
IdleThread == NumThreads + 1
Threads == AppThreads \cup {IdleThread}
IdlePrio == NumPrio + 1

EVENT == 1
Events == {EVENT}

Timeouts == (-1) .. MaxTimeout

\* Status codes (atom.h), as used by atomevent.c
ATOM_OK == "ATOM_OK"
ATOM_TIMEOUT == "ATOM_TIMEOUT"
ATOM_WOULDBLOCK == "ATOM_WOULDBLOCK"
ATOM_ERR_CONTEXT == "ATOM_ERR_CONTEXT"
ATOM_ERR_PARAM == "ATOM_ERR_PARAM"
ATOM_ERR_DELETED == "ATOM_ERR_DELETED"
ATOM_ERR_QUEUE == "ATOM_ERR_QUEUE"
ATOM_ERR_TIMER == "ATOM_ERR_TIMER"
ATOM_ERR_NOT_FOUND == "ATOM_ERR_NOT_FOUND"
\* Not a status code: the call has suspended its caller and has not returned
PENDING == "PENDING"
NONE == "NONE"

\* ------------------------------------------------------------------- state
VARIABLES
    event,        \* [Events -> ATOM_EVENT]: tcb_ptr, flags, mask
    tcb,          \* [Threads -> ATOM_TCB]: priority, suspended,
                  \*   suspend_wake_status, suspend_timo_cb
    tcbReadyQ,    \* the ready queue, head first
    timerQ,       \* registered timers: [Threads -> timer_cb of that thread's
                  \*   atomEventWait frame, or NoTimer]
    curr_tcb,     \* the running thread
    atomIntCnt,   \* interrupt nesting count: 1 inside a handler
    pc,           \* [Threads -> "run" | "wait" | "sched"]
    frame,        \* [Threads -> locals of a suspended atomEventWait]
    ret,          \* what the atomEventWait that has just resumed returns
                  \*   (NoRet after a step in which none resumes)
    halted,       \* the system has stopped: undefined behaviour, or the
                  \*   ready queue's links are broken
    hist,         \* per thread, for its suspension in progress: ticks of the
                  \*   requested timeout still to come, wakeups so far, the
                  \*   status and the flags & mask of the first wakeup
    prog          \* per thread of the ping-pong test, where it is in its
                  \*   loop; not used by the other clients

vars == <<event, tcb, tcbReadyQ, timerQ, curr_tcb, atomIntCnt,
          pc, frame, ret, halted, hist, prog>>

NoTimer == [cb_data |-> NULL, cb_ticks |-> 0]
NoFrame == [event |-> NULL, vptr |-> FALSE]
NoHist == [due |-> 0, wakes |-> 0, first |-> NONE, sat |-> {}]
NoProg == [t \in AppThreads |-> [at |-> "none", i |-> 0]]
NoRet ==
    [op |-> NONE, ctx |-> NULL, ev |-> NULL, mask |-> {}, timeout |-> 0,
     status |-> NONE, vptr |-> FALSE, value |-> {}, sched |-> FALSE,
     cs |-> 0, ce |-> 0, resumed |-> FALSE, hist |-> NoHist]

\* The whole state as one record, so that the calls compose as functions.
State ==
    [event |-> event, tcb |-> tcb, tcbReadyQ |-> tcbReadyQ, timerQ |-> timerQ,
     curr_tcb |-> curr_tcb, atomIntCnt |-> atomIntCnt,
     pc |-> pc, frame |-> frame, ret |-> ret, halted |-> halted, hist |-> hist]

Install(S) ==
    /\ event' = S.event
    /\ tcb' = S.tcb
    /\ tcbReadyQ' = S.tcbReadyQ
    /\ timerQ' = S.timerQ
    /\ curr_tcb' = S.curr_tcb
    /\ atomIntCnt' = S.atomIntCnt
    /\ pc' = S.pc
    /\ frame' = S.frame
    /\ ret' = IF S.ret.resumed THEN S.ret ELSE NoRet
    /\ halted' = S.halted
    /\ hist' = S.hist

\* The bookkeeping of a wakeup of t with wake status st
Woken(S, e, t, st) ==
    [S.hist[t] EXCEPT
       !.wakes = IF @ < 2 THEN @ + 1 ELSE 2,
       !.first = IF S.hist[t].wakes = 0 THEN st ELSE @,
       !.sat = IF S.hist[t].wakes = 0
               THEN S.event[e].flags \cap S.event[e].mask ELSE @]

\* ------------------------------------------------- kernel: ready queue
RECURSIVE InsertPos(_, _, _, _)
InsertPos(q, T, prio, i) ==
    IF i > Len(q) THEN i
    ELSE IF T[q[i]].priority > prio THEN i
    ELSE InsertPos(q, T, prio, i + 1)

\* Insert t behind every entry of the same or a higher priority (a lower
\* number is a higher priority); fails on a null pointer only.
tcbEnqueuePriority(q, T, t) ==
    IF t = NULL THEN [status |-> ATOM_ERR_PARAM, q |-> q]
    ELSE LET i == InsertPos(q, T, T[t].priority, 1)
         IN  [status |-> ATOM_OK,
              q |-> SubSeq(q, 1, i - 1) \o <<t>> \o SubSeq(q, i, Len(q))]

\* The head of the queue if its priority is lowest_pri or higher, else NULL.
tcbDequeuePriority(q, T, lowest_pri) ==
    IF q # <<>> /\ T[Head(q)].priority <= lowest_pri THEN Head(q) ELSE NULL

atomCurrentContext(S) == IF S.atomIntCnt = 0 THEN S.curr_tcb ELSE NULL

\* ------------------------------------------------- kernel: timer list
\* A timer is the ATOM_TIMER in the atomEventWait frame of thread h; its
\* address h is the handle kept in suspend_timo_cb.
\* fail: the timer subsystem refuses the registration.
atomTimerRegister(Q, h, timer, fail) ==
    IF timer.cb_ticks = 0 \/ fail THEN [status |-> ATOM_ERR_PARAM, Q |-> Q]
    ELSE [status |-> ATOM_OK, Q |-> [Q EXCEPT ![h] = timer]]

atomTimerCancel(Q, h) ==
    IF Q[h] = NoTimer THEN [status |-> ATOM_ERR_NOT_FOUND, Q |-> Q]
    ELSE [status |-> ATOM_OK, Q |-> [Q EXCEPT ![h] = NoTimer]]

Registered(Q) == {h \in Threads : Q[h] # NoTimer}

\* ------------------------------------------------- the flag arithmetic
\* atomEventSet: event->flags |= mask
SetFlags_and(flags, mask) == flags \cap mask
SetFlags_keep(flags, mask) == flags
SetFlags(flags, mask) == flags \cup mask

\* atomEventClear: event->flags &= ~mask
ClearFlags_all(flags, mask) == {}
ClearFlags_keepmask(flags, mask) == flags \cap mask
ClearFlags(flags, mask) == flags \cap Not(mask)

\* atomEventSet: a thread is blocking on the event just set
WakePredicate_anyflag(ev) == ev.tcb_ptr # NULL /\ ev.flags # {}
WakePredicate(ev) == ev.tcb_ptr # NULL /\ (ev.flags \cap ev.mask) # {}

\* atomEventSet: bad event pointer or no flags to set
SetBadParam_eventonly(e, mask) == e = NULL
SetBadParam(e, mask) == e = NULL \/ mask = {}

\* atomEventClear: bad event pointer
ClearBadParam(e, mask) == e = NULL

\* atomEventWait: no flag of the mask is set, the call has to block
MustBlock(ev, mask) == (ev.flags \cap mask) = {}

\* atomEventWait: called with timeout >= 0, we should block
WantsBlock_nonzero(timeout) == timeout # 0
WantsBlock_positive(timeout) == timeout > 0
WantsBlock(timeout) == timeout >= 0

\* atomEventWait: another thread is on the suspend list of the event
SlotTaken_never(ev) == FALSE
SlotTaken(ev) == ev.tcb_ptr # NULL

\* atomEventSet, atomEventDelete: the timeout on the suspension, if any
PendingTimeout_none(T, t) == NULL
PendingTimeout(T, t) == T[t].suspend_timo_cb

\* atomEventSet, atomEventDelete: after a wake the scheduler is called only
\* in thread context (c is atomCurrentContext())
CallsSched_always(c) == TRUE
CallsSched_never(c) == FALSE
CallsSched(c) == c # NULL

\* atomEventTimerCallback: the timeout left on the suspension of t when
\* its timer has expired (none: the timer is off the list)
ExpiredTimeout_kept(T, t) == T[t].suspend_timo_cb
ExpiredTimeout(T, t) == NULL

\* CRITICAL_START, CRITICAL_END: one more entry into, one more exit from the
\* critical region on the path taken (n counted so far)
CRITICAL_START(n) == n + 1
CRITICAL_END_none(n) == n
CRITICAL_END(n) == n + 1

\* atomEventCreate: the event after the call
CreatedEvent_keepmask(ev) == [ev EXCEPT !.flags = {}, !.tcb_ptr = NULL]
CreatedEvent(ev) == [ev EXCEPT !.flags = {}, !.mask = {}, !.tcb_ptr = NULL]

\* atomEventWait: the event when the registration of the timeout has failed
RollbackEvent(ev) == [ev EXCEPT !.tcb_ptr = NULL, !.mask = {}]

\* atomEventWait: *value on the immediate return
ImmediateValue_allflags(ev, mask) == ev.flags
ImmediateValue(ev, mask) == ev.flags \cap mask

\* atomEventWait: *value after a wakeup with ATOM_OK
WokenValue(ev) == ev.flags \cap ev.mask

\* atomEventWait: *value when the waiter runs again (0 from the start of the
\* call unless the wake status is ATOM_OK)
ResumedValue_anystatus(status, ev) == WokenValue(ev)
ResumedValue(status, ev) == IF status = ATOM_OK THEN WokenValue(ev) ELSE {}

\* ------------------------------------------------- atomEventWait, resumed
\* atomevent.c 395-414: the waiter is running again inside atomEventWait.
WaitResume(S, t) ==
    LET f == S.frame[t]
        e == f.event
        status == S.tcb[t].suspend_wake_status
        value == IF f.vptr THEN ResumedValue(status, S.event[e]) ELSE {}
    IN  [S EXCEPT !.event[e].tcb_ptr = NULL,
                  !.event[e].mask = {},
                  !.pc[t] = "run",
                  !.frame[t] = NoFrame,
                  !.hist[t] = NoHist,
                  !.ret = [op |-> "wait", ctx |-> t, ev |-> e, mask |-> {},
                           timeout |-> 0, status |-> status,
                           vptr |-> f.vptr, value |-> value, sched |-> TRUE,
                           cs |-> CRITICAL_START(0), ce |-> CRITICAL_END(0),
                           resumed |-> TRUE,
                           hist |-> S.hist[t]]]

\* ------------------------------------------------- kernel: scheduler
\* new_tcb runs; it clears its own suspended flag on the way out of the
\* switch and goes on where it left off, all with interrupts disabled.
atomThreadSwitch(S, old_tcb, new_tcb) ==
    LET S1 == [S EXCEPT !.curr_tcb = new_tcb, !.tcb[new_tcb].suspended = FALSE]
    IN  IF S1.pc[new_tcb] = "wait" THEN WaitResume(S1, new_tcb) ELSE S1

atomSched(S, tick) ==
    LET c == S.curr_tcb
        q == S.tcbReadyQ
    IN  IF S.tcb[c].suspended
        THEN IF q = <<>> THEN [S EXCEPT !.halted = TRUE]
             ELSE atomThreadSwitch([S EXCEPT !.tcbReadyQ = Tail(q)], c, Head(q))
        ELSE LET lowest_pri == IF tick THEN S.tcb[c].priority
                               ELSE S.tcb[c].priority - 1
                 new_tcb == tcbDequeuePriority(q, S.tcb, lowest_pri)
             IN  IF new_tcb = NULL THEN S
                 ELSE atomThreadSwitch(
                        [S EXCEPT !.tcbReadyQ =
                            tcbEnqueuePriority(Tail(q), S.tcb, c).q],
                        c, new_tcb)

\* ------------------------------------------------- the calls' results
Ret(op, ctx, ev, mask, timeout, status, vptr, value, sched, cs, ce) ==
    [op |-> op, ctx |-> ctx, ev |-> ev, mask |-> mask, timeout |-> timeout,
     status |-> status, vptr |-> vptr, value |-> value, sched |-> sched,
     cs |-> cs, ce |-> ce, resumed |-> FALSE, hist |-> NoHist]

\* ------------------------------------------------- atomEventCreate
atomEventCreate(S, e) ==
    LET c == atomCurrentContext(S)
    IN  IF e = NULL
        THEN [S EXCEPT !.ret = Ret("create", c, e, {}, 0, ATOM_ERR_PARAM,
                                   FALSE, {}, FALSE, 0, 0)]
        ELSE [S EXCEPT !.event[e] = CreatedEvent(@),
                       !.ret = Ret("create", c, e, {}, 0, ATOM_OK,
                                   FALSE, {}, FALSE, 0, 0)]

\* ------------------------------------------------- atomEventDelete
\* atomevent.c 168-224, the critical region; the call of atomSched at 226-235
\* is the caller's next step when sched is set.
\* fail: tcbEnqueuePriority refuses the waiter.
atomEventDeleteEnq(S, e, fail) ==
    LET c == atomCurrentContext(S)
        R(status, sched, cs, ce) ==
            Ret("delete", c, e, {}, 0, status, FALSE, {}, sched, cs, ce)
    IN  IF e = NULL THEN [S EXCEPT !.ret = R(ATOM_ERR_PARAM, FALSE, 0, 0)]
        ELSE
        LET tcb_ptr == S.event[e].tcb_ptr
        IN  IF tcb_ptr = NULL THEN [S EXCEPT !.ret = R(ATOM_OK, FALSE, CRITICAL_START(0), CRITICAL_END(0))]
            ELSE
            LET S1 == [S EXCEPT
                        !.tcb[tcb_ptr].suspend_wake_status = ATOM_ERR_DELETED,
                        !.hist[tcb_ptr] = Woken(S, e, tcb_ptr, ATOM_ERR_DELETED)]
                enq == IF fail THEN [status |-> ATOM_ERR_QUEUE, q |-> S1.tcbReadyQ]
                       ELSE tcbEnqueuePriority(S1.tcbReadyQ, S1.tcb, tcb_ptr)
            IN  IF enq.status # ATOM_OK
                THEN [S1 EXCEPT !.ret = R(ATOM_ERR_QUEUE, FALSE, CRITICAL_START(0), CRITICAL_END(0))]
                ELSE
                LET S2 == [S1 EXCEPT !.tcbReadyQ = enq.q]
                    timo == PendingTimeout(S2.tcb, tcb_ptr)
                    can == atomTimerCancel(S2.timerQ, timo)
                IN  IF timo # NULL /\ can.status # ATOM_OK
                    THEN [S2 EXCEPT !.ret = R(ATOM_ERR_TIMER, FALSE, CRITICAL_START(0), CRITICAL_END(0))]
                    ELSE
                    LET S3 == IF timo # NULL
                              THEN [S2 EXCEPT
                                      !.timerQ = can.Q,
                                      !.tcb[tcb_ptr].suspend_timo_cb = NULL]
                              ELSE S2
                        sched == CallsSched(c)
                    IN  [S3 EXCEPT
                           !.ret = R(ATOM_OK, sched, CRITICAL_START(0), CRITICAL_END(0)),
                           !.pc = IF sched THEN [@ EXCEPT ![c] = "sched"] ELSE @]

\* atomEventDelete when the ready queue takes the waiter.
atomEventDelete(S, e) == atomEventDeleteEnq(S, e, FALSE)

\* ------------------------------------------------- atomEventSet
\* atomevent.c 478-546; the call of atomSched at 533-534 is the caller's
\* next step when sched is set.
\* fail: tcbEnqueuePriority refuses the waiter.
atomEventSetEnq(S, e, mask, fail) ==
    LET c == atomCurrentContext(S)
        R(status, sched, cs, ce) ==
            Ret("set", c, e, mask, 0, status, FALSE, {}, sched, cs, ce)
    IN  IF SetBadParam(e, mask) THEN [S EXCEPT !.ret = R(ATOM_ERR_PARAM, FALSE, 0, 0)]
        ELSE
        LET S1 == [S EXCEPT !.event[e].flags = SetFlags(@, mask)]
            ev == S1.event[e]
        IN  IF WakePredicate(ev)
            THEN
            LET tcb_ptr == ev.tcb_ptr
                enq == IF fail THEN [status |-> ATOM_ERR_QUEUE, q |-> S1.tcbReadyQ]
                       ELSE tcbEnqueuePriority(S1.tcbReadyQ, S1.tcb, tcb_ptr)
            IN  IF enq.status # ATOM_OK
                THEN [S1 EXCEPT !.ret = R(ATOM_ERR_QUEUE, FALSE, CRITICAL_START(0), CRITICAL_END(0))]
                ELSE
                LET S2 == [S1 EXCEPT
                            !.tcbReadyQ = enq.q,
                            !.tcb[tcb_ptr].suspend_wake_status = ATOM_OK,
                            !.hist[tcb_ptr] = Woken(S1, e, tcb_ptr, ATOM_OK)]
                    timo == PendingTimeout(S2.tcb, tcb_ptr)
                    can == atomTimerCancel(S2.timerQ, timo)
                    sched == CallsSched(c)
                    S3 == IF timo # NULL /\ can.status # ATOM_OK
                          THEN [S2 EXCEPT !.ret = R(ATOM_ERR_TIMER, sched, CRITICAL_START(0), CRITICAL_END(0))]
                          ELSE [S2 EXCEPT
                                  !.timerQ = IF timo # NULL THEN can.Q ELSE @,
                                  !.tcb[tcb_ptr].suspend_timo_cb = NULL,
                                  !.ret = R(ATOM_OK, sched, CRITICAL_START(0), CRITICAL_END(0))]
                IN  [S3 EXCEPT
                       !.pc = IF sched THEN [@ EXCEPT ![c] = "sched"] ELSE @]
            ELSE [S1 EXCEPT !.ret = R(ATOM_OK, FALSE, CRITICAL_START(0), CRITICAL_END(0))]

\* atomEventSet when the ready queue takes the waiter.
atomEventSet(S, e, mask) == atomEventSetEnq(S, e, mask, FALSE)

\* ------------------------------------------------- atomEventClear
atomEventClear(S, e, mask) ==
    LET c == atomCurrentContext(S)
        R(status, cs, ce) ==
            Ret("clear", c, e, mask, 0, status, FALSE, {}, FALSE, cs, ce)
    IN  IF ClearBadParam(e, mask) THEN [S EXCEPT !.ret = R(ATOM_ERR_PARAM, 0, 0)]
        ELSE [S EXCEPT !.event[e].flags = ClearFlags(@, mask),
                       !.ret = R(ATOM_OK, CRITICAL_START(0), CRITICAL_END(0))]

\* ------------------------------------------------- atomEventWait
\* atomevent.c 296-446 up to the context switch at 388; the rest of a call
\* that suspends is WaitResume.  A frame whose timer_cb is still linked in
\* the timer list from an earlier call links it a second time, which closes
\* the list into a cycle: the system hangs.
atomEventWaitReg(S, e, mask, vptr, timeout, fail) ==
    LET R(c, status, value, sched, ce) ==
            Ret("wait", c, e, mask, timeout, status, vptr, value, sched,
                IF e = NULL THEN 0 ELSE CRITICAL_START(0), ce)
    IN  IF e = NULL
        THEN [S EXCEPT !.ret = R(atomCurrentContext(S), ATOM_ERR_PARAM, {}, FALSE, 0)]
        ELSE
        IF MustBlock(S.event[e], mask)
        THEN
            IF WantsBlock(timeout)
            THEN
            LET curr_tcb_ptr == atomCurrentContext(S)
            IN  IF curr_tcb_ptr # NULL
                THEN
                    IF SlotTaken(S.event[e])
                    THEN [S EXCEPT !.ret = R(curr_tcb_ptr, ATOM_ERR_QUEUE, {}, FALSE, CRITICAL_END(0))]
                    ELSE
                    LET S1 == [S EXCEPT
                                !.event[e].tcb_ptr = curr_tcb_ptr,
                                !.event[e].mask = mask,
                                !.tcb[curr_tcb_ptr].suspended = TRUE]
                        timer_cb == [cb_data |-> e, cb_ticks |-> timeout]
                        reg == atomTimerRegister(S1.timerQ, curr_tcb_ptr, timer_cb, fail)
                        S2 == IF timeout # 0
                              THEN IF reg.status # ATOM_OK
                                   THEN [S1 EXCEPT
                                          !.event[e] = RollbackEvent(@),
                                          !.tcb[curr_tcb_ptr].suspended = FALSE,
                                          !.tcb[curr_tcb_ptr].suspend_timo_cb = NULL]
                                   ELSE [S1 EXCEPT
                                          !.tcb[curr_tcb_ptr].suspend_timo_cb = curr_tcb_ptr,
                                          !.timerQ = reg.Q,
                                          !.halted = @ \/ (S1.timerQ[curr_tcb_ptr] # NoTimer)]
                              ELSE [S1 EXCEPT
                                     !.tcb[curr_tcb_ptr].suspend_timo_cb = NULL]
                        status == IF timeout # 0 /\ reg.status # ATOM_OK
                                  THEN ATOM_ERR_TIMER ELSE ATOM_OK
                    IN  IF status = ATOM_OK
                        THEN atomSched(
                               [S2 EXCEPT
                                  !.pc[curr_tcb_ptr] = "wait",
                                  !.frame[curr_tcb_ptr] =
                                      [event |-> e, vptr |-> vptr],
                                  !.hist[curr_tcb_ptr] =
                                      [NoHist EXCEPT !.due = timeout],
                                  !.ret = R(curr_tcb_ptr, PENDING, {}, TRUE, 0)],
                               FALSE)
                        ELSE [S2 EXCEPT !.ret = R(curr_tcb_ptr, status, {}, FALSE, CRITICAL_END(0))]
                ELSE [S EXCEPT !.ret = R(NULL, ATOM_ERR_CONTEXT, {}, FALSE, CRITICAL_END(0))]
            ELSE [S EXCEPT !.ret = R(atomCurrentContext(S), ATOM_WOULDBLOCK, {}, FALSE, CRITICAL_END(0))]
        ELSE [S EXCEPT !.ret = R(atomCurrentContext(S), ATOM_OK,
                                 IF vptr THEN ImmediateValue(S.event[e], mask) ELSE {},
                                 FALSE, CRITICAL_END(0))]

\* atomEventWait when the timer subsystem takes the registration.
atomEventWait(S, e, mask, vptr, timeout) ==
    atomEventWaitReg(S, e, mask, vptr, timeout, FALSE)

\* ------------------------------------------------- atomEventTimerCallback
\* atomevent.c 610-641.  With a null tcb_ptr the three accesses go through a
\* null pointer: undefined behaviour, which either leaves the kernel state
\* alone (ub = "ignore") or stops the system (ub = "halt").
atomEventTimerCallback(S, cb_data, ub) ==
    IF cb_data = NULL THEN S
    ELSE
    LET tcb_ptr == S.event[cb_data].tcb_ptr
    IN  IF tcb_ptr = NULL
        THEN [S EXCEPT !.halted = @ \/ (ub = "halt")]
        ELSE [S EXCEPT
                !.tcb[tcb_ptr].suspend_wake_status = ATOM_TIMEOUT,
                !.tcb[tcb_ptr].suspend_timo_cb = ExpiredTimeout(S.tcb, tcb_ptr),
                !.hist[tcb_ptr] = Woken(S, cb_data, tcb_ptr, ATOM_TIMEOUT),
                !.tcbReadyQ = tcbEnqueuePriority(@, S.tcb, tcb_ptr).q]

\* atomevent.c 619-634: the entries into and exits from the critical region
\* in atomEventTimerCallback.
TimerCallbackRegion(cb_data) ==
    IF cb_data = NULL THEN [cs |-> 0, ce |-> 0]
    ELSE [cs |-> CRITICAL_START(0), ce |-> CRITICAL_END(0)]

\* ------------------------------------------------- kernel: system tick
RECURSIVE atomTimerCallbacks(_, _, _, _)
atomTimerCallbacks(S, Q, order, ub) ==
    IF order = <<>> THEN S
    ELSE atomTimerCallbacks(
            atomEventTimerCallback(S, Q[Head(order)].cb_data, ub),
            Q, Tail(order), ub)

Expired(Q) == {h \in Registered(Q) : Q[h].cb_ticks = 1}
\* A registered timer whose atomEventWait frame has returned is a dangling
\* stack address: running it is undefined behaviour.
Dangling(S) == {h \in Registered(S.timerQ) : S.pc[h] # "wait"}

Orders(X) ==
    {o \in [1 .. Cardinality(X) -> X] : \A i, j \in DOMAIN o : o[i] = o[j] => i = j}

atomTimerTick(S, order, ub) ==
    LET Q == S.timerQ
        S1 == [S EXCEPT
                !.timerQ = [h \in Threads |->
                              IF Q[h] = NoTimer \/ Q[h].cb_ticks = 1 THEN NoTimer
                              ELSE [Q[h] EXCEPT !.cb_ticks = @ - 1]],
                !.hist = [h \in Threads |->
                            [S.hist[h] EXCEPT
                               !.due = IF @ > 0 THEN @ - 1 ELSE 0]],
                !.halted = @ \/ (ub = "halt" /\ Expired(Q) \cap Dangling(S) # {}),
                !.ret = [NoRet EXCEPT !.op = "tick"]]
    IN  atomTimerCallbacks(S1, Q, order, ub)

\* ------------------------------------------------- the system
EventArgs == Events \cup {NULL}
\* The arguments of a call: with a null event the call returns before it
\* looks at the others, which are then the ones of the parameter tests.
MaskArgs(e) == IF e = NULL THEN {{}} ELSE Masks
VptrArgs(e) == IF e = NULL THEN {FALSE} ELSE BOOLEAN
TimeoutArgs(e) == IF e = NULL THEN {0} ELSE Timeouts

RECURSIVE StartQueue(_, _, _)
StartQueue(q, T, n) ==
    IF n > IdleThread THEN q
    ELSE StartQueue(tcbEnqueuePriority(q, T, n).q, T, n + 1)

\* All threads have been created and the OS started: the first thread of the
\* highest priority runs, the others are ready; the event has been created.
Init ==
    \E prio \in {p \in [AppThreads -> 1 .. NumPrio] : \E t \in AppThreads : p[t] = 1} :
        LET T == [t \in Threads |->
                    [priority |-> IF t = IdleThread THEN IdlePrio ELSE prio[t],
                     suspended |-> FALSE,
                     suspend_wake_status |-> ATOM_OK,
                     suspend_timo_cb |-> NULL]]
            q == StartQueue(<<>>, T, 1)
        IN  /\ tcb = T
            /\ curr_tcb = Head(q)
            /\ tcbReadyQ = Tail(q)
            /\ event = [e \in Events |-> [tcb_ptr |-> NULL, flags |-> {}, mask |-> {}]]
            /\ timerQ = [t \in Threads |-> NoTimer]
            /\ atomIntCnt = 0
            /\ pc = [t \in Threads |-> "run"]
            /\ frame = [t \in Threads |-> NoFrame]
            /\ ret = NoRet
            /\ halted = FALSE
            /\ hist = [t \in Threads |-> NoHist]
            /\ prog = NoProg

\* A call can be made by the running application thread between two calls.
CanCall ==
    ~halted /\ atomIntCnt = 0 /\ curr_tcb \in AppThreads /\ pc[curr_tcb] = "run"

\* A thread put on the ready queue while it is on it, or while it runs,
\* breaks the links of the queue: the model stops there.
Broken(S) ==
    \/ \E i, j \in DOMAIN S.tcbReadyQ : i # j /\ S.tcbReadyQ[i] = S.tcbReadyQ[j]
    \/ \E i \in DOMAIN S.tcbReadyQ : S.tcbReadyQ[i] = S.curr_tcb

Do(S) == Install([S EXCEPT !.halted = @ \/ Broken(S)]) /\ UNCHANGED prog

atomIntEnter(S) == [S EXCEPT !.atomIntCnt = 1]
atomIntExit(S, tick) == atomSched([S EXCEPT !.atomIntCnt = 0], tick)

\* The calls from thread context
Create == \E e \in EventArgs : CanCall /\ Do(atomEventCreate(State, e))

Delete == \E e \in EventArgs : CanCall /\ Do(atomEventDelete(State, e))

Set == \E e \in EventArgs : \E mask \in MaskArgs(e) :
            CanCall /\ Do(atomEventSet(State, e, mask))

Clear == \E e \in EventArgs : \E mask \in MaskArgs(e) :
            CanCall /\ Do(atomEventClear(State, e, mask))

Wait == \E e \in EventArgs : \E mask \in MaskArgs(e), vptr \in VptrArgs(e),
                          timeout \in TimeoutArgs(e) :
            \E fail \in BOOLEAN :
                CanCall /\ Do(atomEventWaitReg(State, e, mask, vptr, timeout, fail))

\* atomEventSet 533-534, atomEventDelete 227-235: the caller, in thread
\* context, calls the scheduler after leaving the critical region.
SchedCall ==
    /\ ~halted /\ pc[curr_tcb] = "sched"
    /\ Do(atomSched([State EXCEPT !.pc[curr_tcb] = "run",
                                  !.ret = [NoRet EXCEPT !.op = "sched",
                                                        !.ctx = curr_tcb,
                                                        !.sched = TRUE]],
                    FALSE))

\* The calls from an interrupt handler, which interrupts the running thread
\* between two of its steps.
IsrCreate == \E e \in EventArgs :
    ~halted /\ Do(atomIntExit(atomEventCreate(atomIntEnter(State), e), FALSE))

IsrDelete == \E e \in EventArgs :
    ~halted /\ Do(atomIntExit(atomEventDelete(atomIntEnter(State), e), FALSE))

IsrSet == \E e \in EventArgs : \E mask \in MaskArgs(e) :
    ~halted /\ Do(atomIntExit(atomEventSet(atomIntEnter(State), e, mask), FALSE))

IsrClear == \E e \in EventArgs : \E mask \in MaskArgs(e) :
    ~halted /\ Do(atomIntExit(atomEventClear(atomIntEnter(State), e, mask), FALSE))

IsrWait == \E e \in EventArgs : \E mask \in MaskArgs(e), vptr \in VptrArgs(e),
                          timeout \in TimeoutArgs(e) :
    ~halted
    /\ Do(atomIntExit(atomEventWait(atomIntEnter(State), e, mask, vptr, timeout),
                      FALSE))

\* The system tick handler
Tick ==
    /\ ~halted
    /\ \E order \in Orders(Expired(timerQ)), ub \in {"ignore", "halt"} :
            Do(atomIntExit(atomTimerTick(atomIntEnter(State), order, ub), TRUE))

Next ==
    \/ Create
    \/ Delete
    \/ Set
    \/ Clear
    \/ Wait
    \/ SchedCall
    \/ IsrCreate
    \/ IsrDelete
    \/ IsrSet
    \/ IsrClear
    \/ IsrWait
    \/ Tick

Spec == Init /\ [][Next]_vars

\* The same system with atomEventCreate used as its header says, to
\* initialise an event before any other call on it: the event is new, or it
\* has been deleted, so that no thread is inside atomEventWait on it but
\* one that atomEventDelete has woken.
Waiting(S, e) ==
    \E t \in AppThreads :
        /\ S.pc[t] = "wait"
        /\ S.frame[t].event = e
        /\ S.hist[t].first # ATOM_ERR_DELETED

CreateUse == \E e \in EventArgs :
    /\ CanCall
    /\ e # NULL => ~Waiting(State, e)
    /\ Do(atomEventCreate(State, e))

IsrCreateUse == \E e \in EventArgs :
    /\ ~halted
    /\ e # NULL => ~Waiting(State, e)
    /\ Do(atomIntExit(atomEventCreate(atomIntEnter(State), e), FALSE))

NextUse ==
    \/ CreateUse
    \/ Delete
    \/ Set
    \/ Clear
    \/ Wait
    \/ SchedCall
    \/ IsrCreateUse
    \/ IsrDelete
    \/ IsrSet
    \/ IsrClear
    \/ IsrWait
    \/ Tick

SpecUse == Init /\ [][NextUse]_vars

\* The same system with the event created once, before the threads start,
\* and not created again.
NextOnce ==
    \/ Delete
    \/ Set
    \/ Clear
    \/ Wait
    \/ SchedCall
    \/ IsrDelete
    \/ IsrSet
    \/ IsrClear
    \/ IsrWait
    \/ Tick

SpecOnce == Init /\ [][NextOnce]_vars

\* ------------------------------------------------- the ping-pong test
\* Two events and two threads: the main thread sets the first event and
\* waits on the second with a timeout, the test thread waits on the first
\* with none, clears it and sets the second.  The mask is one bit, the next
\* one in each round.
EVENT1 == 2
PPEvents == {EVENT, EVENT1}
MAIN == 1
TEST1 == 2
TestMask(i) == {i}
NextMask(i) == (i + 1) % NumBits

InitPP ==
    \E prio \in {p \in [AppThreads -> 1 .. NumPrio] : \E t \in AppThreads : p[t] = 1} :
        LET T == [t \in Threads |->
                    [priority |-> IF t = IdleThread THEN IdlePrio ELSE prio[t],
                     suspended |-> FALSE,
                     suspend_wake_status |-> ATOM_OK,
                     suspend_timo_cb |-> NULL]]
            q == StartQueue(<<>>, T, 1)
        IN  /\ tcb = T
            /\ curr_tcb = Head(q)
            /\ tcbReadyQ = Tail(q)
            /\ event = [e \in PPEvents |-> [tcb_ptr |-> NULL, flags |-> {}, mask |-> {}]]
            /\ timerQ = [t \in Threads |-> NoTimer]
            /\ atomIntCnt = 0
            /\ pc = [t \in Threads |-> "run"]
            /\ frame = [t \in Threads |-> NoFrame]
            /\ ret = NoRet
            /\ halted = FALSE
            /\ hist = [t \in Threads |-> NoHist]
            /\ prog = [t \in AppThreads |->
                         [at |-> IF t = MAIN THEN "set"
                                 ELSE IF t = TEST1 THEN "wait" ELSE "none",
                          i |-> 0]]

\* The test on the return of atomEventWait: status ATOM_OK and value = mask.
Checked(p, status, value) ==
    IF status = ATOM_OK /\ value = TestMask(p.i)
    THEN [p EXCEPT !.at = "clear"]
    ELSE [p EXCEPT !.at = "failed"]

\* The thread whose atomEventWait has resumed in this step tests its return.
Resumed(P, S) ==
    IF S.ret.resumed
    THEN [P EXCEPT ![S.ret.ctx] = Checked(@, S.ret.status, S.ret.value)]
    ELSE P

DoPP(S, P) ==
    Install([S EXCEPT !.halted = @ \/ Broken(S)]) /\ prog' = Resumed(P, S)

Runs(t, at) == CanCall /\ curr_tcb = t /\ prog[t].at = at

\* The return of an atomEventWait that did not suspend is tested at once.
AfterWait(R, t) ==
    IF R.pc[t] = "wait" THEN prog
    ELSE [prog EXCEPT ![t] = Checked(@, R.ret.status, R.ret.value)]

MainSet ==
    /\ Runs(MAIN, "set")
    /\ LET R == atomEventSet(State, EVENT, TestMask(prog[MAIN].i))
       IN  DoPP(R, [prog EXCEPT ![MAIN].at =
                        IF R.ret.status = ATOM_OK THEN "wait" ELSE "failed"])

MainWait ==
    /\ Runs(MAIN, "wait")
    /\ LET R == atomEventWait(State, EVENT1, TestMask(prog[MAIN].i), TRUE, MaxTimeout)
       IN  DoPP(R, AfterWait(R, MAIN))

MainClear ==
    /\ Runs(MAIN, "clear")
    /\ DoPP(atomEventClear(State, EVENT1, ALLBITS),
            [prog EXCEPT ![MAIN] = [at |-> "set", i |-> NextMask(@.i)]])

Test1Wait ==
    /\ Runs(TEST1, "wait")
    /\ LET R == atomEventWait(State, EVENT, TestMask(prog[TEST1].i), TRUE, 0)
       IN  DoPP(R, AfterWait(R, TEST1))

Test1Clear ==
    /\ Runs(TEST1, "clear")
    /\ LET R == atomEventClear(State, EVENT, ALLBITS)
       IN  DoPP(R, [prog EXCEPT ![TEST1].at =
                        IF R.ret.status = ATOM_OK THEN "set" ELSE "failed"])

Test1Set ==
    /\ Runs(TEST1, "set")
    /\ LET R == atomEventSet(State, EVENT1, TestMask(prog[TEST1].i))
       IN  DoPP(R, [prog EXCEPT ![TEST1] =
                        IF R.ret.status = ATOM_OK
                        THEN [at |-> "wait", i |-> NextMask(@.i)]
                        ELSE [@ EXCEPT !.at = "failed"]])

PPSched ==
    /\ ~halted /\ pc[curr_tcb] = "sched"
    /\ DoPP(atomSched([State EXCEPT !.pc[curr_tcb] = "run",
                                    !.ret = [NoRet EXCEPT !.op = "sched",
                                                          !.ctx = curr_tcb,
                                                          !.sched = TRUE]],
                      FALSE),
            prog)

\* The system tick.  The threads do not delay, so a round is over long
\* before the timeout of the main thread's wait: a tick that finds a thread
\* of the test running preempts it and leaves the timeout as far away as it
\* was; the timeout runs down once only the idle thread is left to run.
PPTick ==
    /\ ~halted
    /\ \E order \in Orders(Expired(timerQ)), ub \in {"ignore", "halt"} :
         LET S == atomIntEnter(State)
         IN  DoPP(atomIntExit(IF curr_tcb = IdleThread
                              THEN atomTimerTick(S, order, ub)
                              ELSE [S EXCEPT !.ret = [NoRet EXCEPT !.op = "tick"]],
                              TRUE),
                  prog)

NextPP ==
    \/ MainSet
    \/ MainWait
    \/ MainClear
    \/ Test1Wait
    \/ Test1Clear
    \/ Test1Set
    \/ PPSched
    \/ PPTick

SpecPP == InitPP /\ [][NextPP]_vars

\* ------------------------------------------------- two events
\* Two created events, waited on, set and deleted by threads and interrupt
\* handlers: a thread that waits on one event can be made ready while a
\* thread of a higher priority, woken through the other event, runs.
InitTwo ==
    \E prio \in {p \in [AppThreads -> 1 .. NumPrio] : \E t \in AppThreads : p[t] = 1} :
        LET T == [t \in Threads |->
                    [priority |-> IF t = IdleThread THEN IdlePrio ELSE prio[t],
                     suspended |-> FALSE,
                     suspend_wake_status |-> ATOM_OK,
                     suspend_timo_cb |-> NULL]]
            q == StartQueue(<<>>, T, 1)
        IN  /\ tcb = T
            /\ curr_tcb = Head(q)
            /\ tcbReadyQ = Tail(q)
            /\ event = [e \in PPEvents |-> [tcb_ptr |-> NULL, flags |-> {}, mask |-> {}]]
            /\ timerQ = [t \in Threads |-> NoTimer]
            /\ atomIntCnt = 0
            /\ pc = [t \in Threads |-> "run"]
            /\ frame = [t \in Threads |-> NoFrame]
            /\ ret = NoRet
            /\ halted = FALSE
            /\ hist = [t \in Threads |-> NoHist]
            /\ prog = NoProg

\* The masks of the calls: the bits of one event
TwoMasks == Masks \ {{}}

DeleteTwo == \E e \in PPEvents : CanCall /\ Do(atomEventDelete(State, e))

SetTwo == \E e \in PPEvents : \E mask \in TwoMasks :
            CanCall /\ Do(atomEventSet(State, e, mask))

WaitTwo == \E e \in PPEvents : \E mask \in TwoMasks, timeout \in Timeouts :
            CanCall /\ Do(atomEventWait(State, e, mask, TRUE, timeout))

IsrDeleteTwo == \E e \in PPEvents :
    ~halted /\ Do(atomIntExit(atomEventDelete(atomIntEnter(State), e), FALSE))

IsrSetTwo == \E e \in PPEvents : \E mask \in TwoMasks :
    ~halted /\ Do(atomIntExit(atomEventSet(atomIntEnter(State), e, mask), FALSE))

NextTwo ==
    \/ DeleteTwo
    \/ SetTwo
    \/ WaitTwo
    \/ SchedCall
    \/ IsrDeleteTwo
    \/ IsrSetTwo
    \/ Tick

SpecTwo == InitTwo /\ [][NextTwo]_vars

\* ------------------------------------------------- the properties
\* The states in which a call starts: the running thread between two of its
\* calls, or an interrupt handler that has interrupted any thread.
CallStates ==
    (IF CanCall THEN {State} ELSE {})
        \cup (IF ~halted THEN {atomIntEnter(State)} ELSE {})

\* t is suspended in atomEventWait on e and nothing has woken it yet.
Suspended(S, e, t) ==
    /\ S.event[e].tcb_ptr = t
    /\ S.pc[t] = "wait"
    /\ S.frame[t].event = e
    /\ S.tcb[t].suspended
    /\ S.hist[t].wakes = 0

\* R is S but for the result of the call.
Unchanged(S, R) == [R EXCEPT !.ret = S.ret] = S

\* atomEventSet(e, m2) with a waiter whose mask shares no flag with the flags
\* it leaves: only the flags change.
NoSpuriousWake(M2) ==
    \A S \in CallStates : \A t \in AppThreads : \A m2 \in M2 :
        LET ev == S.event[EVENT]
            R == atomEventSet(S, EVENT, m2)
        IN  (/\ Suspended(S, EVENT, t)
             /\ ev.mask \cap m2 = {}
             /\ ev.flags \cap ev.mask = {})
            => /\ R.ret.status = ATOM_OK
               /\ ~R.ret.sched
               /\ R.event[EVENT].flags = ev.flags \cup m2
               /\ R = [S EXCEPT !.event[EVENT].flags = ev.flags \cup m2,
                                !.ret = R.ret]

C6_ImmediateSuccess ==
    \A S \in CallStates : \A mask \in Masks, vptr \in BOOLEAN, timeout \in Timeouts :
        LET ev == S.event[EVENT]
            R == atomEventWait(S, EVENT, mask, vptr, timeout)
        IN  (ev.flags \cap mask) # {}
            => /\ R.ret.status = ATOM_OK
               /\ ~R.ret.sched
               /\ R.ret.cs = 1 /\ R.ret.ce = 1
               /\ vptr => R.ret.value = ev.flags \cap mask
               /\ Unchanged(S, R)

C6_Witness ==
    \E S \in CallStates : \E t \in AppThreads :
        /\ S.atomIntCnt = 1
        /\ Suspended(S, EVENT, t)
        /\ S.event[EVENT].flags = ALLBITS
        /\ atomEventWait(S, EVENT, {0}, TRUE, -1).ret.value = {0}

\* C9: atomEventClear(E, m) returns ATOM_OK and changes E.flags to
\* old & ~m and nothing else, for every m, whether or not a thread is
\* suspended on E: nothing is enqueued, no wake status or timeout is touched,
\* the scheduler is not called.
C9_ClearNeverWakes ==
    \A S \in CallStates : \A m \in Masks :
        LET ev == S.event[EVENT]
            R == atomEventClear(S, EVENT, m)
        IN  /\ R.ret.status = ATOM_OK
            /\ ~R.ret.sched
            /\ R.event[EVENT].flags = ev.flags \ m
            /\ R = [S EXCEPT !.event[EVENT].flags = ev.flags \ m, !.ret = R.ret]

C9_Witness ==
    \E S \in CallStates : \E t \in AppThreads : \E m \in Masks :
        /\ Suspended(S, EVENT, t)
        /\ S.event[EVENT].flags = ALLBITS \ S.event[EVENT].mask
        /\ m \cap S.event[EVENT].flags # {}
        /\ m \cap S.event[EVENT].mask # {}
        /\ atomEventClear(S, EVENT, m).event[EVENT].flags # S.event[EVENT].flags

\* The result of a call with a bad parameter: ATOM_ERR_PARAM, the critical
\* region not entered, the scheduler not called, nothing changed.
ParamError(S, R) ==
    /\ R.ret.status = ATOM_ERR_PARAM
    /\ R.ret.cs = 0
    /\ ~R.ret.sched
    /\ Unchanged(S, R)

\* C10: atomEventCreate(NULL), atomEventDelete(NULL), atomEventWait(NULL, ..),
\* atomEventSet(NULL, m), atomEventClear(NULL, m) and atomEventSet(E, 0) each
\* return ATOM_ERR_PARAM without entering the critical region, without a call
\* of the scheduler and without a change of any event or thread.
C10_ParameterErrors ==
    \A S \in CallStates :
        /\ ParamError(S, atomEventCreate(S, NULL))
        /\ ParamError(S, atomEventDelete(S, NULL))
        /\ \A mask \in Masks, vptr \in BOOLEAN, timeout \in Timeouts :
                ParamError(S, atomEventWait(S, NULL, mask, vptr, timeout))
        /\ \A m \in Masks :
                /\ ParamError(S, atomEventSet(S, NULL, m))
                /\ ParamError(S, atomEventClear(S, NULL, m))
        /\ ParamError(S, atomEventSet(S, EVENT, {}))

C10_Witness ==
    \E S \in CallStates : \E t \in AppThreads :
        /\ Suspended(S, EVENT, t)
        /\ S.event[EVENT].flags # {}
        /\ atomEventSet(S, EVENT, {}).ret.status = ATOM_ERR_PARAM
        /\ atomEventWait(S, NULL, ALLBITS, TRUE, 1).ret.status = ATOM_ERR_PARAM

\* t is on the ready queue.
Ready(S, t) == \E i \in DOMAIN S.tcbReadyQ : S.tcbReadyQ[i] = t

\* What a call that wakes the suspended waiter t with status st leaves:
\* ATOM_OK returned, the wake status st, no timeout pending and the timer
\* of the suspension off the timer list, t on the ready queue.
Wakes(S, R, t, st) ==
    /\ R.ret.status = ATOM_OK
    /\ R.tcb[t].suspend_wake_status = st
    /\ R.tcb[t].suspend_timo_cb = NULL
    /\ S.tcb[t].suspend_timo_cb # NULL => R.timerQ[t] = NoTimer
    /\ Ready(R, t)

\* The status the atomEventWait of a waiter first woken with st returns is st:
\* it is st while the waiter is ready, and st when the waiter has resumed.
Returns(st) ==
    /\ \A t \in AppThreads :
            (pc[t] = "wait" /\ hist[t].first = st)
                => tcb[t].suspend_wake_status = st
    /\ (ret.resumed /\ ret.hist.first = st) => ret.status = st

\* C2: with a thread suspended in atomEventWait(E, w, timeout >= 0),
\* atomEventSet(E, m) that makes E.flags & w non-zero returns ATOM_OK, gives
\* the waiter the wake status ATOM_OK, cancels its timeout if one is
\* registered and puts it on the ready queue; and the waiter's atomEventWait
\* returns ATOM_OK once it is dispatched.
C2_WakeOnSet ==
    /\ \A S \in CallStates : \A t \in AppThreads : \A m \in Masks :
            (/\ Suspended(S, EVENT, t)
             /\ (S.event[EVENT].flags \cup m) \cap S.event[EVENT].mask # {})
                => Wakes(S, atomEventSet(S, EVENT, m), t, ATOM_OK)
    /\ Returns(ATOM_OK)

\* C3: one suspension is resolved by at most one of atomEventSet,
\* atomEventDelete and the timeout callback: the waiter's wake status is
\* assigned once and the waiter is put on the ready queue once.
C3_SingleResolution == \A t \in AppThreads : hist[t].wakes <= 1

\* C4: once a waiter has been given a wake status, a later atomEventSet,
\* atomEventDelete or timeout for the same suspension leaves the waiter
\* alone, and atomEventWait returns the status of the first of them.
C4_FirstResolverWins ==
    /\ \A t \in AppThreads :
            (pc[t] = "wait" /\ hist[t].wakes >= 1)
                => tcb[t].suspend_wake_status = hist[t].first
    /\ ret.resumed => ret.status = ret.hist.first

\* C5: the value a waiter woken by atomEventSet receives is E.flags & w as
\* it was at the wakeup, whatever is set or cleared between the wakeup and
\* the waiter running again.  Stated here for the suspensions that were
\* resolved once only, by atomEventSet.
C5_ExactMaskDelivery ==
    (/\ ret.resumed
     /\ ret.vptr
     /\ ret.status = ATOM_OK
     /\ ret.hist.wakes = 1
     /\ ret.hist.first = ATOM_OK)
        => ret.value = ret.hist.sat

\* C7: atomEventWait(E, mask, T) with T > 0 from a thread, never satisfied
\* and E not deleted, returns ATOM_TIMEOUT: until then its timer counts the
\* T ticks down with the thread as E's waiter, the callback wakes it once
\* and not before T ticks, and suspend_timo_cb is null when it returns.
C7_Timeout ==
    /\ \A t \in AppThreads :
            (pc[t] = "wait" /\ hist[t].wakes = 0 /\ tcb[t].suspend_timo_cb # NULL)
                => /\ timerQ[t] # NoTimer
                   /\ timerQ[t].cb_ticks = hist[t].due
                   /\ event[EVENT].tcb_ptr = t
    /\ (ret.resumed /\ ret.hist.first = ATOM_TIMEOUT)
            => /\ ret.status = ATOM_TIMEOUT
               /\ ret.hist.wakes = 1
               /\ ret.hist.due = 0
               /\ tcb[ret.ctx].suspend_timo_cb = NULL

\* C8: atomEventDelete(E) with a thread suspended on E returns ATOM_OK, gives
\* the waiter the wake status ATOM_ERR_DELETED, cancels its timeout and puts
\* it on the ready queue; the waiter's atomEventWait returns ATOM_ERR_DELETED,
\* and the timer of the suspension is off the timer list.
C8_DeleteWakes ==
    /\ \A S \in CallStates : \A t \in AppThreads :
            Suspended(S, EVENT, t)
                => Wakes(S, atomEventDelete(S, EVENT), t, ATOM_ERR_DELETED)
    /\ Returns(ATOM_ERR_DELETED)

\* C11: atomEventWait(E, mask, value, timeout < 0) with E.flags & mask = 0
\* returns ATOM_WOULDBLOCK at once, from a thread and from an interrupt
\* handler: the caller is not suspended, the scheduler is not called, no
\* timer is registered, and the event, the ready queue and the timer list
\* are as before.
C11_NonBlockingProbe ==
    \A S \in CallStates : \A mask \in Masks, vptr \in BOOLEAN :
        \A timeout \in {n \in Timeouts : n < 0} :
            LET R == atomEventWait(S, EVENT, mask, vptr, timeout)
            IN  (S.event[EVENT].flags \cap mask) = {}
                => /\ R.ret.status = ATOM_WOULDBLOCK
                   /\ ~R.ret.sched
                   /\ R.ret.value = {}
                   /\ Unchanged(S, R)

C11_Witness ==
    \E S \in CallStates : \E t \in AppThreads :
        /\ S.atomIntCnt = 0
        /\ Suspended(S, EVENT, t)
        /\ S.timerQ[t] # NoTimer
        /\ S.event[EVENT].flags # {}
        /\ S.event[EVENT].flags # ALLBITS
        /\ atomEventWait(S, EVENT, ALLBITS \ S.event[EVENT].flags, TRUE, -1).ret.status
                = ATOM_WOULDBLOCK

\* C12: atomEventWait(E, mask, value, timeout >= 0) with E.flags & mask = 0
\* called from an interrupt handler returns ATOM_ERR_CONTEXT, and the event,
\* every TCB, the ready queue and the timer list are as before the call:
\* nothing is suspended, the scheduler is not called.
C12_NoBlockingInInterrupt ==
    \A S \in CallStates : \A mask \in Masks, vptr \in BOOLEAN :
        \A timeout \in {n \in Timeouts : n >= 0} :
            LET R == atomEventWait(S, EVENT, mask, vptr, timeout)
            IN  (atomCurrentContext(S) = NULL /\ (S.event[EVENT].flags \cap mask) = {})
                => /\ R.ret.status = ATOM_ERR_CONTEXT
                   /\ ~R.ret.sched
                   /\ Unchanged(S, R)

C12_Witness ==
    \E S \in CallStates :
        /\ S.atomIntCnt > 0
        /\ S.event[EVENT].tcb_ptr = NULL
        /\ S.event[EVENT].flags = {1}
        /\ atomEventWait(S, EVENT, {0}, TRUE, 0).ret.status = ATOM_ERR_CONTEXT
        /\ atomEventWait(S, EVENT, {0}, TRUE, MaxTimeout).ret.status = ATOM_ERR_CONTEXT

\* C13: an event records one waiter at most, and atomEventWait(E, mask,
\* value, timeout >= 0) that has to block while another thread is E's
\* recorded waiter returns ATOM_ERR_QUEUE: the caller is not suspended, no
\* timer is registered for it, the recorded waiter and its mask stay.
C13_SingleWaiter ==
    /\ event[EVENT].tcb_ptr \in AppThreads \cup {NULL}
    /\ \A S \in CallStates : \A mask \in Masks, vptr \in BOOLEAN :
        \A timeout \in {n \in Timeouts : n >= 0} :
            LET c == atomCurrentContext(S)
                ev == S.event[EVENT]
                R == atomEventWait(S, EVENT, mask, vptr, timeout)
            IN  (/\ c # NULL
                 /\ ev.tcb_ptr \notin {NULL, c}
                 /\ (ev.flags \cap mask) = {})
                => /\ R.ret.status = ATOM_ERR_QUEUE
                   /\ ~R.ret.sched
                   /\ ~R.tcb[c].suspended /\ R.pc[c] = "run"
                   /\ R.timerQ = S.timerQ
                   /\ R.event[EVENT] = ev
                   /\ Unchanged(S, R)

C13_Witness ==
    \E S \in CallStates : \E t \in AppThreads :
        /\ atomCurrentContext(S) \notin {NULL, t}
        /\ Suspended(S, EVENT, t)
        /\ S.timerQ[t] # NoTimer
        /\ S.event[EVENT].mask = {0}
        /\ atomEventWait(S, EVENT, {1}, TRUE, 1).ret.status = ATOM_ERR_QUEUE

\* t is suspended in atomEventWait with timeout 0 and nothing has woken it.
Indefinite(t) ==
    pc[t] = "wait" /\ hist[t].wakes = 0 /\ tcb[t].suspend_timo_cb = NULL

\* C14: a thread suspended by atomEventWait(E, mask, 0) has no timer
\* registered and a null suspend_timo_cb, and whatever happens next, ticks
\* included, it stays suspended unless atomEventSet makes E.flags & mask
\* non-zero or E is deleted: its wait never returns ATOM_TIMEOUT; and the
\* call with timeout 0 that has to block does not return at once.
C14_IndefiniteBlocking ==
    /\ [](\A t \in AppThreads : Indefinite(t) => timerQ[t] = NoTimer)
    /\ [](\A S \in CallStates : \A mask \in Masks, vptr \in BOOLEAN :
            LET c == atomCurrentContext(S)
                R == atomEventWait(S, EVENT, mask, vptr, 0)
            IN  (/\ c # NULL
                 /\ S.event[EVENT].tcb_ptr = NULL
                 /\ (S.event[EVENT].flags \cap mask) = {})
                => (R.pc[c] = "wait" \/ R.halted))
    /\ [][\A t \in AppThreads :
            Indefinite(t)
                => LET h == IF pc'[t] = "wait" THEN hist'[t] ELSE ret'.hist
                   IN  /\ pc'[t] # "wait" => (ret'.resumed /\ ret'.ctx = t)
                       /\ h.first \in {NONE, ATOM_OK, ATOM_ERR_DELETED}
                       /\ h.first = ATOM_OK => h.sat # {}]_vars

\* C15: when an atomEventWait that registered a timeout returns, with
\* ATOM_OK, ATOM_TIMEOUT or ATOM_ERR_DELETED, its timer is off the timer list
\* (it fired or was cancelled) and the thread's suspend_timo_cb is null, for
\* every interleaving of atomEventSet, atomEventDelete and timer expiry.
\* (It holds when the event is created once, SpecOnce; not when a deleted
\* event is created again.)
C15_NoLeakedTimers ==
    ret.resumed
        => /\ timerQ[ret.ctx] = NoTimer
           /\ tcb[ret.ctx].suspend_timo_cb = NULL

\* t is suspended in atomEventWait on e, nothing has woken it, and e does not
\* record it: atomEventSet, atomEventDelete and the timeout callback wake
\* the recorded waiter only, and only a call of atomEventWait by t itself
\* records t, so that t stays suspended for good.
Orphaned(e, t) ==
    /\ pc[t] = "wait"
    /\ frame[t].event = e
    /\ hist[t].wakes = 0
    /\ event[e].tcb_ptr # t

\* Once orphaned, always orphaned.
OrphanedForGood ==
    [][\A t \in AppThreads : Orphaned(EVENT, t) => Orphaned(EVENT, t)']_vars

\* C16: no thread suspended by atomEventWait with timeout > 0 is left
\* suspended for ever: with ticks and dispatching fair it returns with
\* ATOM_OK, ATOM_TIMEOUT or ATOM_ERR_DELETED.  Stated as what a finite run
\* refutes: no such thread is ever orphaned, and a wait returns one of the
\* three.
C16_NoThreadSuspendedForever ==
    /\ \A t \in AppThreads :
            tcb[t].suspend_timo_cb # NULL => ~Orphaned(EVENT, t)
    /\ ret.resumed
            => ret.status \in {ATOM_OK, ATOM_TIMEOUT, ATOM_ERR_DELETED}

SchedIff(S, R, want) == R.ret.sched <=> want

\* The call that takes S to R has put a thread on the ready queue.
Enqueued(S, R) == Len(R.tcbReadyQ) > Len(S.tcbReadyQ)

\* C18: in an event call the scheduler is called if and only if
\* atomEventWait suspends the caller, or atomEventSet or atomEventDelete has
\* put a waiter on the ready queue and is called by a thread.  So it is not
\* called by atomEventCreate, atomEventClear, an atomEventWait that does not
\* block, a set or delete that wakes nobody or comes from an interrupt
\* handler, or the timeout callback.
C18_SchedulerRule ==
    \A S \in CallStates :
        LET c == atomCurrentContext(S)
        IN  /\ ~atomEventCreate(S, EVENT).ret.sched
            /\ LET R == atomEventDelete(S, EVENT)
               IN  SchedIff(S, R, c # NULL /\ Enqueued(S, R))
            /\ \A mask \in Masks :
                /\ ~atomEventClear(S, EVENT, mask).ret.sched
                /\ LET R == atomEventSet(S, EVENT, mask)
                   IN  SchedIff(S, R, c # NULL /\ Enqueued(S, R))
                /\ \A vptr \in BOOLEAN, timeout \in Timeouts :
                    LET R == atomEventWait(S, EVENT, mask, vptr, timeout)
                    IN  SchedIff(S, R, c # NULL /\ R.pc[c] = "wait")
            /\ \A ub \in {"ignore", "halt"} :
                LET R == atomEventTimerCallback(S, EVENT, ub)
                IN  c = NULL
                    => (R.curr_tcb = S.curr_tcb /\ R.pc = S.pc /\ R.ret = S.ret)

C18_Witness ==
    \E S \in CallStates : \E t \in AppThreads :
        /\ atomCurrentContext(S) \notin {NULL, t}
        /\ Suspended(S, EVENT, t)
        /\ S.tcb[t].suspend_timo_cb # NULL
        /\ atomEventDelete(S, EVENT).ret.sched
        /\ atomEventSet(S, EVENT, S.event[EVENT].mask).ret.sched
        /\ ~atomEventSet(atomIntEnter(S), EVENT, S.event[EVENT].mask).ret.sched

\* The timeout of t's suspension on e has fired and t has not run since.
TimedOut(S, e, t) ==
    /\ S.event[e].tcb_ptr = t
    /\ S.pc[t] = "wait"
    /\ S.frame[t].event = e
    /\ S.hist[t].first = ATOM_TIMEOUT

\* C19: a timeout and an atomEventSet or atomEventDelete that meet on one
\* suspension never show as an error status.  An atomEventSet or
\* atomEventDelete called after the timeout has fired, before the waiter has
\* run again or after, returns ATOM_OK; no atomEventSet or atomEventDelete
\* ever returns ATOM_ERR_TIMER or ATOM_ERR_QUEUE; atomEventWait never returns
\* ATOM_ERR_TIMER, returns ATOM_ERR_QUEUE only at once and only to a caller
\* that found another thread inside atomEventWait on the event, and returns
\* ATOM_OK, ATOM_TIMEOUT or ATOM_ERR_DELETED after a suspension.
C19_RacesNotErrors ==
    /\ \A S \in CallStates : \A e \in DOMAIN event :
        /\ atomEventDelete(S, e).ret.status = ATOM_OK
        /\ \A mask \in Masks :
            /\ atomEventSet(S, e, mask).ret.status
                    = IF mask = {} THEN ATOM_ERR_PARAM ELSE ATOM_OK
            /\ \A vptr \in BOOLEAN, timeout \in Timeouts :
                LET R == atomEventWait(S, e, mask, vptr, timeout)
                    w == S.event[e].tcb_ptr
                IN  /\ R.ret.status # ATOM_ERR_TIMER
                    /\ R.ret.status = ATOM_ERR_QUEUE
                        => /\ w \notin {NULL, atomCurrentContext(S)}
                           /\ S.pc[w] = "wait"
                           /\ Unchanged(S, R)
    /\ ret.resumed
        => ret.status \in {ATOM_OK, ATOM_TIMEOUT, ATOM_ERR_DELETED}

\* The timeout of t has fired, t is ready and has not run; a thread or an
\* interrupt handler calls atomEventDelete, or atomEventSet with the bits t
\* waits for.
C19_Witness ==
    \E S \in CallStates : \E e \in DOMAIN event : \E t \in AppThreads :
        /\ TimedOut(S, e, t)
        /\ Ready(S, t)
        /\ atomEventDelete(S, e).ret.status = ATOM_OK
        /\ LET R == atomEventSet(S, e, S.event[e].mask)
           IN  R.ret.status = ATOM_OK /\ R.hist[t].wakes = 2

\* The flags of every event.
Flags(S) == [e \in DOMAIN S.event |-> S.event[e].flags]

\* C20: the flags of an event are 0 after atomEventCreate, flags | m after
\* atomEventSet(m) with m # 0, whether a thread waits or not and whether the
\* bits were set or not, and flags & ~m after atomEventClear(m); every
\* atomEventWait, the waiter that runs again, atomEventDelete, the timeout
\* callback, the system tick and the scheduler leave them as they are.
C20_FlagArithmetic ==
    \A S \in CallStates :
        LET f == S.event[EVENT].flags
        IN  /\ atomEventCreate(S, EVENT).event[EVENT].flags = {}
            /\ Flags(atomEventDelete(S, EVENT)) = Flags(S)
            /\ \A mask \in Masks :
                /\ atomEventSet(S, EVENT, mask).event[EVENT].flags = f \cup mask
                /\ atomEventClear(S, EVENT, mask).event[EVENT].flags = f \ mask
                /\ \A vptr \in BOOLEAN, timeout \in Timeouts :
                    Flags(atomEventWait(S, EVENT, mask, vptr, timeout)) = Flags(S)
            /\ \A t \in AppThreads :
                S.pc[t] = "wait" => Flags(WaitResume(S, t)) = Flags(S)
            /\ \A ub \in {"ignore", "halt"} :
                /\ Flags(atomEventTimerCallback(S, EVENT, ub)) = Flags(S)
                /\ \A order \in Orders(Expired(S.timerQ)) :
                    Flags(atomIntExit(atomTimerTick(S, order, ub), TRUE)) = Flags(S)
            /\ \A tick \in BOOLEAN : Flags(atomSched(S, tick)) = Flags(S)

\* A thread waits for bits that are not set while another bit is: a set of
\* the bit that is set, a set of all bits, a clear, a delete and the expiry
\* of the waiter's timeout are all at hand.
C20_Witness ==
    \E S \in CallStates : \E t \in AppThreads :
        LET f == S.event[EVENT].flags
        IN  /\ Suspended(S, EVENT, t)
            /\ f # {} /\ f # ALLBITS
            /\ t \in Expired(S.timerQ)
            /\ atomEventSet(S, EVENT, f).event[EVENT].flags = f
            /\ atomEventSet(S, EVENT, ALLBITS).event[EVENT].flags = ALLBITS
            /\ atomEventClear(S, EVENT, f).event[EVENT].flags = {}
            /\ atomEventCreate(S, EVENT).event[EVENT].flags = {}

\* n times atomEventCreate, atomEventDelete on e, as long as both return
\* ATOM_OK; the status of the last call is left in ret.
RECURSIVE CreateDelete(_, _, _)
CreateDelete(S, e, n) ==
    IF n = 0 THEN S
    ELSE LET S1 == atomEventCreate(S, e)
             S2 == atomEventDelete(S1, e)
         IN  IF S1.ret.status # ATOM_OK THEN S1
             ELSE IF S2.ret.status # ATOM_OK THEN S2
             ELSE CreateDelete(S2, e, n - 1)

\* C21: atomEventCreate returns ATOM_OK and leaves the event with no flags,
\* no waiter and no mask; atomEventDelete on an event without waiter returns
\* ATOM_OK, changes nothing and does not call the scheduler; any number of
\* create, delete on the same event return ATOM_OK and leave the ready
\* queue, the timer list and the TCBs as they were.
C21_CreateDeleteRepeatable ==
    \A S \in CallStates :
        /\ LET R == atomEventCreate(S, EVENT)
           IN  /\ R.ret.status = ATOM_OK /\ ~R.ret.sched
               /\ R.event[EVENT] = [tcb_ptr |-> NULL, flags |-> {}, mask |-> {}]
               /\ [R EXCEPT !.event = S.event, !.ret = S.ret] = S
        /\ S.event[EVENT].tcb_ptr = NULL
            => LET R == atomEventDelete(S, EVENT)
               IN  R.ret.status = ATOM_OK /\ ~R.ret.sched /\ Unchanged(S, R)
        /\ \A n \in 1 .. MaxRepeat :
            LET R == CreateDelete(S, EVENT, n)
            IN  /\ R.ret.op = "delete" /\ R.ret.status = ATOM_OK /\ ~R.ret.sched
                /\ R = atomEventDelete(atomEventCreate(S, EVENT), EVENT)
                /\ R.tcbReadyQ = S.tcbReadyQ /\ R.timerQ = S.timerQ
                /\ R.tcb = S.tcb /\ R.curr_tcb = S.curr_tcb /\ R.pc = S.pc

\* create, delete on an event that has flags set and was waited on before,
\* while timers run.
C21_Witness ==
    \E S \in CallStates :
        /\ S.event[EVENT].tcb_ptr = NULL
        /\ S.event[EVENT].flags # {}
        /\ Registered(S.timerQ) # {}
        /\ S.ret.op = "wait"
        /\ CreateDelete(S, EVENT, MaxRepeat).ret.status = ATOM_OK
        /\ CreateDelete(S, EVENT, MaxRepeat).event[EVENT].flags = {}

\* C22: whichever of atomEventSet, atomEventDelete and the timeout callback
\* wakes a waiter also clears the waiter slot of the event, so that a thread
\* that has been woken and has not run yet is not in the slot of the event
\* it waited on.
C22_ResolverClearsSlot ==
    \A t \in AppThreads :
        (pc[t] = "wait" /\ hist[t].wakes >= 1)
            => event[frame[t].event].tcb_ptr # t

\* t is in the waiter slot of some event.
InSlot(t) == \E e \in DOMAIN event : event[e].tcb_ptr = t

\* C23: no thread is on the ready queue and in the waiter slot of an event
\* at the same time, and every thread that does not run is in one of the
\* two.
C23_SingleOwnership ==
    \A t \in Threads :
        /\ ~(Ready(State, t) /\ InSlot(t))
        /\ t # curr_tcb => (Ready(State, t) \/ InSlot(t))

\* C24: the waiter slot of an event names a thread if and only if that
\* thread is suspended in atomEventWait on the event and has not been woken;
\* a timeout pending for it is a registered timer whose callback data is the
\* event; when atomEventDelete has returned ATOM_OK the slot is empty.
C24_WaiterSlot ==
    /\ \A e \in DOMAIN event :
        LET t == event[e].tcb_ptr
        IN  t # NULL
            => /\ pc[t] = "wait" /\ frame[t].event = e
               /\ tcb[t].suspended
               /\ hist[t].wakes = 0
               /\ tcb[t].suspend_timo_cb # NULL
                    => (timerQ[t] # NoTimer /\ timerQ[t].cb_data = e)
    /\ \A t \in AppThreads :
        (pc[t] = "wait" /\ hist[t].wakes = 0)
            => event[frame[t].event].tcb_ptr = t
    /\ \A S \in CallStates :
        LET R == atomEventDelete(S, EVENT)
        IN  R.ret.status = ATOM_OK => R.event[EVENT].tcb_ptr = NULL

\* C25: no thread is on the ready queue more than once, and the running
\* thread is not on it.
C25_NoDuplicates ==
    /\ \A i, j \in DOMAIN tcbReadyQ : tcbReadyQ[i] = tcbReadyQ[j] => i = j
    /\ \A i \in DOMAIN tcbReadyQ : tcbReadyQ[i] # curr_tcb

\* The call that takes S to R has written an event, a TCB, the ready queue
\* or the timer list.
Wrote(S, R) ==
    \/ R.event # S.event
    \/ R.tcb # S.tcb
    \/ R.tcbReadyQ # S.tcbReadyQ
    \/ R.timerQ # S.timerQ

\* The calls that can be made on EVENT in S, but atomEventCreate.
CallsOn(S) ==
    {atomEventDelete(S, EVENT)}
        \cup {atomEventSet(S, EVENT, mask) : mask \in Masks}
        \cup {atomEventClear(S, EVENT, mask) : mask \in Masks}
        \cup {atomEventWait(S, EVENT, a[1], a[2], a[3]) :
                a \in Masks \X BOOLEAN \X Timeouts}

\* Every write of delete, wait, set, clear and the timeout callback is made
\* in the critical region.
GuardedWrites ==
    \A S \in CallStates :
        /\ \A R \in CallsOn(S) : Wrote(S, R) => R.ret.cs >= 1
        /\ \A ub \in {"ignore", "halt"} :
            Wrote(S, atomEventTimerCallback(S, EVENT, ub))
                => TimerCallbackRegion(EVENT).cs >= 1

\* C26: every write of create, delete, wait, set, clear and the timeout
\* callback to an event, a TCB, the ready queue or the timer list is made
\* while the critical region is held.
C26_WritesInCritical ==
    /\ GuardedWrites
    /\ \A S \in CallStates :
        LET R == atomEventCreate(S, EVENT)
        IN  Wrote(S, R) => R.ret.cs >= 1

\* S with an empty timer list: there atomTimerCancel fails for a waiter
\* that has a timeout pending.
NoTimers(S) == [S EXCEPT !.timerQ = [t \in Threads |-> NoTimer]]

\* The call has returned to its caller (a wait that has suspended its caller
\* has not).
Returned(R) == R.ret.status # PENDING

\* C27: on every path each of delete, wait, set, clear and the timeout
\* callback leaves the critical region as often as it enters it, at most
\* once, the error returns included: no call returns with the region held,
\* none leaves it without having entered it.  A wait that suspends its
\* caller holds the region over the switch and leaves it when it runs again.
C27_CriticalReleased ==
    /\ \A S \in CallStates : \A X \in {S, NoTimers(S)} : \A R \in CallsOn(X) :
        /\ R.ret.cs \in {0, 1}
        /\ Returned(R) => R.ret.ce = R.ret.cs
        /\ ~Returned(R) => (R.ret.cs = 1 /\ R.ret.ce = 0 /\ R.ret.op = "wait")
    /\ \A e \in EventArgs :
        LET r == TimerCallbackRegion(e) IN r.cs \in {0, 1} /\ r.ce = r.cs
    /\ ret.resumed => (ret.cs = 1 /\ ret.ce = 1)

\* A waiter with a timeout is suspended: another thread's wait returns
\* ATOM_ERR_QUEUE, an interrupt handler's ATOM_ERR_CONTEXT or
\* ATOM_WOULDBLOCK, and with the timer gone set and delete return
\* ATOM_ERR_TIMER.
C27_Witness ==
    \E S \in CallStates : \E t \in AppThreads :
        LET c == atomCurrentContext(S)
            I == atomIntEnter(S)
            m == S.event[EVENT].mask
        IN  /\ c \notin {NULL, t}
            /\ Suspended(S, EVENT, t)
            /\ S.tcb[t].suspend_timo_cb # NULL
            /\ atomEventWait(S, EVENT, m, TRUE, 0).ret.status = ATOM_ERR_QUEUE
            /\ atomEventWait(I, EVENT, m, TRUE, 0).ret.status = ATOM_ERR_CONTEXT
            /\ atomEventWait(I, EVENT, m, TRUE, -1).ret.status = ATOM_WOULDBLOCK
            /\ atomEventSet(NoTimers(S), EVENT, m).ret.status = ATOM_ERR_TIMER
            /\ atomEventDelete(NoTimers(S), EVENT).ret.status = ATOM_ERR_TIMER
            /\ atomEventDelete(NoTimers(S), EVENT).ret.ce = 1

\* The running thread is of a priority at least as high as every thread on
\* the ready queue (a lower number is a higher priority).
TopPriority(S) ==
    \A i \in DOMAIN S.tcbReadyQ :
        S.tcb[S.curr_tcb].priority <= S.tcb[S.tcbReadyQ[i]].priority

\* The caller c goes on after a set or delete that has woken a waiter: it
\* calls the scheduler (atomevent.c 533-534, 227-235).
AfterWake(R, c) == atomSched([R EXCEPT !.pc[c] = "run"], FALSE)

\* The waiter t of a priority higher than the caller's has been woken by the
\* call that led to R: the caller's call of the scheduler lets t return from
\* atomEventWait, and the caller is ready, still inside its own call.
WakerYields(R, c, t) ==
    (R.ret.sched /\ R.hist[t].wakes = 1 /\ R.tcb[t].priority < R.tcb[c].priority)
        => LET R2 == AfterWake(R, c)
           IN  /\ R2.curr_tcb = t /\ R2.pc[t] = "run"
               /\ R2.ret.resumed /\ R2.ret.ctx = t
               /\ Ready(R2, c)

\* C28 as stated: whenever a thread runs outside a critical region and no
\* interrupt handler is active, its priority is at least as high as that of
\* every thread on the ready queue.
C28_AsStated == (~halted /\ atomIntCnt = 0) => TopPriority(State)

\* The ready queues of the threads with the priorities T: in priority
\* order, no thread twice.
ReadyQueues(T) ==
    {q \in UNION {[1 .. n -> Threads] : n \in 0 .. NumThreads + 1} :
        \A i, j \in DOMAIN q :
            i < j => (q[i] # q[j] /\ T[q[i]].priority <= T[q[j]].priority)}

\* tcbEnqueuePriority puts a thread behind the threads of its own and of
\* higher priorities and before the others, and leaves their order; the
\* thread taken off the queue is its head.
FifoDispatch ==
    \A T \in [Threads -> [priority : 1 .. NumPrio]] : \A q \in ReadyQueues(T) :
        /\ \A p \in 0 .. NumPrio :
            q # <<>> => tcbDequeuePriority(q, T, p) \in {NULL, q[1]}
        /\ \A t \in Threads :
            (\A i \in DOMAIN q : q[i] # t)
                => LET r == tcbEnqueuePriority(q, T, t).q
                   IN  /\ Len(r) = Len(q) + 1
                       /\ \E k \in DOMAIN r :
                            /\ r[k] = t
                            /\ \A i \in DOMAIN q :
                                IF T[q[i]].priority <= T[t].priority
                                THEN i < k /\ r[i] = q[i]
                                ELSE i >= k /\ r[i + 1] = q[i]

\* C28: whenever a thread runs outside the event calls and no interrupt
\* handler is active, its priority is at least as high as that of every
\* thread on the ready queue, which is in priority order; a set or delete of
\* a thread that wakes a waiter of a higher priority lets the waiter return
\* from atomEventWait before it returns itself; threads of equal priority
\* leave the ready queue in the order they were put on it.
C28_PriorityDispatch ==
    /\ (~halted /\ atomIntCnt = 0 /\ pc[curr_tcb] = "run")
            => TopPriority(State)
    /\ ~halted
            => \A i, j \in DOMAIN tcbReadyQ :
                    i < j => tcb[tcbReadyQ[i]].priority <= tcb[tcbReadyQ[j]].priority
    /\ \A S \in CallStates : \A t \in AppThreads :
            LET c == atomCurrentContext(S)
            IN  (c # NULL /\ Suspended(S, EVENT, t))
                => /\ WakerYields(atomEventDelete(S, EVENT), c, t)
                   /\ \A mask \in Masks :
                        WakerYields(atomEventSet(S, EVENT, mask), c, t)
    /\ FifoDispatch

\* A thread sets, or deletes, the event a thread of a higher priority waits
\* on: the waiter is on the ready queue while the caller still runs, and
\* runs once the caller has called the scheduler.
C28_Witness ==
    \E S \in CallStates : \E t \in AppThreads :
        LET c == atomCurrentContext(S)
            R == atomEventSet(S, EVENT, ALLBITS)
            D == atomEventDelete(S, EVENT)
        IN  /\ c # NULL
            /\ Suspended(S, EVENT, t)
            /\ S.tcb[t].priority < S.tcb[c].priority
            /\ R.ret.sched /\ R.hist[t].wakes = 1
            /\ ~TopPriority(R)
            /\ AfterWake(R, c).curr_tcb = t
            /\ AfterWake(D, c).ret.status = ATOM_ERR_DELETED

\* What atomEventWait leaves when the registration of its timeout has
\* failed: ATOM_ERR_TIMER, no scheduler call, and nothing of the suspension.
RolledBack(S, R, c) ==
    /\ R.ret.status = ATOM_ERR_TIMER /\ ~R.ret.sched
    /\ R.event[EVENT] = [tcb_ptr |-> NULL, mask |-> {},
                         flags |-> S.event[EVENT].flags]
    /\ ~R.tcb[c].suspended /\ R.tcb[c].suspend_timo_cb = NULL
    /\ R.curr_tcb = c /\ R.pc[c] = "run" /\ ~Ready(R, c)
    /\ R.tcbReadyQ = S.tcbReadyQ
    /\ R.timerQ = S.timerQ

\* C29: when atomEventWait with a timeout > 0 must block and the timer
\* subsystem refuses the timeout, it returns ATOM_ERR_TIMER without a call of
\* the scheduler, and the event has no waiter and no mask, its flags are as
\* before, and the caller is not suspended, has no timeout pending, is not
\* on the ready queue and not in the timer list.
C29_RegistrationRollback ==
    \A S \in CallStates : \A mask \in Masks, vptr \in BOOLEAN :
        \A timeout \in {n \in Timeouts : n > 0} :
            LET c == atomCurrentContext(S)
                R == atomEventWaitReg(S, EVENT, mask, vptr, timeout, TRUE)
            IN  (c # NULL /\ MustBlock(S.event[EVENT], mask)
                    /\ ~SlotTaken(S.event[EVENT]))
                => RolledBack(S, R, c) /\ R.timerQ[c] = NoTimer

\* The same but for the timers the caller has left behind before: the
\* failed registration adds none.
RegistrationAddsNothing ==
    \A S \in CallStates : \A mask \in Masks, vptr \in BOOLEAN :
        \A timeout \in {n \in Timeouts : n > 0} :
            LET c == atomCurrentContext(S)
                R == atomEventWaitReg(S, EVENT, mask, vptr, timeout, TRUE)
            IN  (c # NULL /\ MustBlock(S.event[EVENT], mask)
                    /\ ~SlotTaken(S.event[EVENT]))
                => RolledBack(S, R, c)

\* C30: when atomEventSet finds a waiter whose bits are now set and the
\* ready queue refuses it, it returns ATOM_ERR_QUEUE with the flags updated
\* to flags | m; the waiter's wake status and pending timeout are not
\* written, its timer stays registered, the event still names it with its
\* mask, it stays suspended, and the scheduler is not called.
C30_PartialUpdate ==
    \A S \in CallStates : \A t \in AppThreads : \A mask \in Masks :
        LET ev == S.event[EVENT]
            R == atomEventSetEnq(S, EVENT, mask, TRUE)
        IN  (Suspended(S, EVENT, t) /\ (ev.flags \cup mask) \cap ev.mask # {})
            => /\ R.ret.status = ATOM_ERR_QUEUE /\ ~R.ret.sched
               /\ R.event[EVENT] = [ev EXCEPT !.flags = ev.flags \cup mask]
               /\ R.event[EVENT].tcb_ptr = t
               /\ R.tcb = S.tcb /\ R.tcb[t].suspended
               /\ R.timerQ = S.timerQ
               /\ R.tcbReadyQ = S.tcbReadyQ /\ ~Ready(R, t)
               /\ R.pc = S.pc /\ R.curr_tcb = S.curr_tcb /\ R.hist = S.hist

\* A waiter with a timeout in flight, and a set of its bits, from a thread
\* and from an interrupt handler, that the ready queue refuses.
C30_Witness ==
    \E S \in CallStates : \E t \in AppThreads :
        LET m == S.event[EVENT].mask
            R == atomEventSetEnq(S, EVENT, m, TRUE)
            I == atomEventSetEnq(atomIntEnter(S), EVENT, m, TRUE)
        IN  /\ atomCurrentContext(S) # NULL
            /\ Suspended(S, EVENT, t)
            /\ m # {} /\ S.event[EVENT].flags # {}
            /\ S.timerQ[t] # NoTimer
            /\ R.ret.status = ATOM_ERR_QUEUE /\ I.ret.status = ATOM_ERR_QUEUE
            /\ R.event[EVENT].flags = S.event[EVENT].flags \cup m
            /\ R.timerQ[t] = S.timerQ[t]
            /\ atomEventSet(S, EVENT, m).ret.status = ATOM_OK

\* C31: when atomEventDelete finds a waiter and the ready queue refuses it,
\* it returns ATOM_ERR_QUEUE with the waiter's wake status already
\* ATOM_ERR_DELETED and its timeout still registered; when the waiter is
\* enqueued and the cancelling of its timeout fails, it returns
\* ATOM_ERR_TIMER with the waiter on the ready queue, its pending timeout
\* still set, and no call of the scheduler, in thread context either.
C31_DeleteAborts ==
    \A S \in CallStates : \A t \in AppThreads :
        Suspended(S, EVENT, t)
        => /\ LET R == atomEventDeleteEnq(S, EVENT, TRUE)
              IN  /\ R.ret.status = ATOM_ERR_QUEUE /\ ~R.ret.sched
                  /\ R.tcb[t].suspend_wake_status = ATOM_ERR_DELETED
                  /\ R.tcb[t].suspend_timo_cb = S.tcb[t].suspend_timo_cb
                  /\ R.timerQ = S.timerQ
                  /\ R.tcbReadyQ = S.tcbReadyQ /\ R.pc = S.pc
                  /\ R.event = S.event
           /\ S.tcb[t].suspend_timo_cb # NULL
                => LET R == atomEventDelete(NoTimers(S), EVENT)
                   IN  /\ R.ret.status = ATOM_ERR_TIMER /\ ~R.ret.sched
                       /\ R.tcb[t].suspend_wake_status = ATOM_ERR_DELETED
                       /\ Ready(R, t) /\ Len(R.tcbReadyQ) = Len(S.tcbReadyQ) + 1
                       /\ R.tcb[t].suspend_timo_cb # NULL
                       /\ R.pc = S.pc /\ R.curr_tcb = S.curr_tcb
                       /\ R.event = S.event

\* A thread deletes the event another thread waits on with a timeout.
C31_Witness ==
    \E S \in CallStates : \E t \in AppThreads :
        /\ atomCurrentContext(S) \notin {NULL, t}
        /\ Suspended(S, EVENT, t)
        /\ S.tcb[t].suspend_timo_cb # NULL /\ S.timerQ[t] # NoTimer
        /\ S.tcb[t].suspend_wake_status # ATOM_ERR_DELETED
        /\ atomEventDeleteEnq(S, EVENT, TRUE).ret.status = ATOM_ERR_QUEUE
        /\ atomEventDelete(NoTimers(S), EVENT).ret.status = ATOM_ERR_TIMER
        /\ atomEventDelete(S, EVENT).ret.sched

\* C32: an atomEventWait with an event and an output that returns another
\* status than ATOM_OK has written 0 to the output, whatever the flags are:
\* at once (ATOM_WOULDBLOCK, ATOM_ERR_CONTEXT, ATOM_ERR_QUEUE,
\* ATOM_ERR_TIMER) and after a suspension (ATOM_TIMEOUT, ATOM_ERR_DELETED).
C32_ValueOnFailure ==
    /\ \A S \in CallStates : \A mask \in Masks, timeout \in Timeouts :
        \A fail \in BOOLEAN :
            LET R == atomEventWaitReg(S, EVENT, mask, TRUE, timeout, fail)
            IN  (Returned(R) /\ R.ret.status # ATOM_OK) => R.ret.value = {}
    /\ (ret.resumed /\ ret.vptr /\ ret.status # ATOM_OK) => ret.value = {}

\* A wait with an output has returned ATOM_TIMEOUT or ATOM_ERR_DELETED while
\* flags of the event are set, and a wait that cannot block returns at once.
C32_Witness ==
    /\ ret.resumed /\ ret.vptr
    /\ ret.status \in {ATOM_TIMEOUT, ATOM_ERR_DELETED}
    /\ event[EVENT].flags # {}
    /\ ret.value = {}
    /\ \E S \in CallStates :
        /\ atomEventWait(S, EVENT, ALLBITS \ S.event[EVENT].flags, TRUE, -1).ret.status
                = ATOM_WOULDBLOCK
        /\ atomEventWaitReg(S, EVENT, ALLBITS \ S.event[EVENT].flags, TRUE, 1, TRUE).ret.status
                \in {ATOM_ERR_TIMER, ATOM_ERR_QUEUE, ATOM_ERR_CONTEXT}

\* C33: a wait that returns ATOM_OK with an output has a non-zero value that
\* is a subset of the requested mask: on the immediate path for every call,
\* and on the blocked path for every suspension resolved once only, by
\* atomEventSet, whatever is set or cleared before the waiter runs again.
C33_OkImpliesSatisfied ==
    /\ \A S \in CallStates : \A mask \in Masks, timeout \in Timeouts :
            LET R == atomEventWait(S, EVENT, mask, TRUE, timeout)
            IN  (Returned(R) /\ R.ret.status = ATOM_OK)
                    => (R.ret.value # {} /\ R.ret.value \subseteq mask)
    /\ (/\ ret.resumed
        /\ ret.vptr
        /\ ret.status = ATOM_OK
        /\ ret.hist.wakes = 1
        /\ ret.hist.first = ATOM_OK)
            => (ret.value # {} /\ ret.value \subseteq ret.hist.sat)

\* Once a thread has been left suspended and recorded by a whole step, no
\* later step that leaves it unwoken takes it out of the waiter slot or
\* changes the wait mask.
RecordKeptOnceSuspended ==
    [][\A t \in AppThreads :
        (/\ Suspended(State, EVENT, t)
         /\ pc'[t] = "wait"
         /\ hist'[t].wakes = 0)
            => /\ event'[EVENT].tcb_ptr = t
               /\ event'[EVENT].mask = event[EVENT].mask]_vars

\* C34: a thread that is suspended in atomEventWait on E and that nothing
\* has woken is E's recorded waiter, from the moment it suspends: no other
\* thread returning from an earlier wait on E, and no create, clears or
\* overwrites the record, so that set, delete and the timeout reach it.
C34_StableWaiterRecord ==
    \A t \in AppThreads :
        (pc[t] = "wait" /\ frame[t].event = EVENT /\ hist[t].wakes = 0)
            => (event[EVENT].tcb_ptr = t /\ tcb[t].suspended)

\* C35: when the timeout callback is about to run for a timer (the timer
\* expires at the next tick, and the system runs), the waiter slot of its
\* event names the thread that registered the timer, and that thread is
\* suspended in its atomEventWait, unwoken and not on the ready queue.
C35_CallbackFindsWaiter ==
    ~halted =>
        \A h \in Expired(timerQ) :
            LET e == timerQ[h].cb_data
            IN  /\ event[e].tcb_ptr = h
                /\ Suspended(State, e, h)
                /\ ~Ready(State, h)

\* C36: atomEventWait returns ATOM_ERR_QUEUE only when another thread is
\* suspended on the event and nothing has woken it: a waiter that set,
\* delete or the timeout has put on the ready queue and that has not run
\* yet does not make the blocking wait of another thread fail.
C36_QueueErrorRealWaiter ==
    \A S \in CallStates : \A mask \in Masks, vptr \in BOOLEAN :
        \A timeout \in Timeouts :
            LET c == atomCurrentContext(S)
                R == atomEventWait(S, EVENT, mask, vptr, timeout)
            IN  R.ret.status = ATOM_ERR_QUEUE
                    => \E t \in AppThreads \ {c} : Suspended(S, EVENT, t)

\* t is suspended on EVENT with the empty mask, recorded and unwoken.
EmptyMaskWaiter(t) ==
    Suspended(State, EVENT, t) /\ event[EVENT].mask = {}

\* atomEventWait(EVENT, 0, timeout) in every call state: never ATOM_OK at
\* once, ATOM_WOULDBLOCK with timeout < 0, and from a thread, with
\* timeout >= 0 and the waiter slot free, the caller is suspended.
EmptyMaskCall ==
    \A S \in CallStates : \A vptr \in BOOLEAN, timeout \in Timeouts :
        LET c == atomCurrentContext(S)
            R == atomEventWait(S, EVENT, {}, vptr, timeout)
        IN  /\ R.ret.status # ATOM_OK
            /\ timeout < 0 => (R.ret.status = ATOM_WOULDBLOCK /\ Unchanged(S, R))
            /\ (timeout >= 0 /\ c # NULL /\ S.event[EVENT].tcb_ptr = NULL)
                    => (R.halted \/ (R.pc[c] = "wait" /\ R.tcb[c].suspended))

\* No atomEventSet, with any mask, wakes a waiter on the empty mask.
EmptyMaskNoSet ==
    \A S \in CallStates : \A t \in AppThreads, m2 \in Masks :
        (Suspended(S, EVENT, t) /\ S.event[EVENT].mask = {})
            => LET R == atomEventSet(S, EVENT, m2)
               IN  /\ R.hist[t] = S.hist[t]
                   /\ R.pc[t] = "wait"
                   /\ ~Ready(R, t)

\* A waiter on the empty mask is woken by atomEventDelete only or, when it
\* has a timeout, by the expiry of the timeout; with timeout 0 by
\* atomEventDelete only.
EmptyMaskResumes ==
    \A t \in AppThreads :
        EmptyMaskWaiter(t)
            => LET h == IF pc'[t] = "wait" THEN hist'[t] ELSE ret'.hist
               IN  /\ pc'[t] # "wait" => (ret'.resumed /\ ret'.ctx = t)
                   /\ h.first \in {NONE, ATOM_ERR_DELETED, ATOM_TIMEOUT}
                   /\ Indefinite(t) => h.first # ATOM_TIMEOUT
                   /\ h.first = ATOM_TIMEOUT => hist[t].due = 1

\* C37: atomEventWait(E, 0, timeout) never returns ATOM_OK; with
\* timeout < 0 it returns ATOM_WOULDBLOCK; with timeout >= 0 from a thread
\* it suspends the caller, which no atomEventSet wakes and which resumes
\* only by atomEventDelete or, with timeout > 0, by the expiry of its
\* timeout; with timeout 0 it is never woken by a timeout.
C37_EmptyMaskWait ==
    /\ [](EmptyMaskCall /\ EmptyMaskNoSet)
    /\ [][EmptyMaskResumes]_vars
====
